---- MODULE Spec2Model ----
(***************************************************************************)
(* Model of the Messier catalogue pipeline: the Reporter's normalisation   *)
(* (src/app.py: categorize_object, parse_distance), the Collector's size   *)
(* cleaning (src/celestial_scraper.py: clean_data.parse_size) and the      *)
(* Reporter's script run (category filter, grouped statistics).            *)
(*                                                                         *)
(* Python values are tagged tuples:                                        *)
(*   None             <<"None">>                                           *)
(*   a str            <<"str", cs>>      cs a sequence of one-char strings *)
(*   a float          <<"float", n, d>>  the rational n/d, d > 0, reduced  *)
(*   a raised error   <<"raise", name>>                                    *)
(***************************************************************************)
EXTENDS Integers, Sequences, FiniteSets, TLC

VARIABLES
  obj_type,      \* categorize_object: its argument
  classified,    \* categorize_object: the pair it returned, or Unset
  dist,          \* parse_distance: its argument
  distance_kly,  \* parse_distance: the value it returned, or Unset
  reparsed,      \* parse_distance of str(distance_kly), or Unset
  size,          \* parse_size: its argument
  size_arcmin,   \* parse_size: the value it returned, or Unset
  csv,               \* messier_fixed.csv: the sequence of raw rows
  df,                \* the cached enriched table, empty before the load
  selected_category, \* the sidebar selectbox value, Unset before the first run
  filtered_df,       \* df restricted by the selectbox
  category_counts,   \* tab 1: df['category'].value_counts()
  mag_stats,         \* tab 2: per-category magnitude statistics
  brightest_cat,     \* tab 2: mag_stats mean idxmin
  dimmest_cat,       \* tab 2: mag_stats mean idxmax
  summary,           \* tab 5: per-category summary table, empty if not reached
  radar_data,        \* tab 5: summary with the normalized columns, empty if not reached
  script_error,      \* the exception that ended the script run, or None
  pc,             \* collector: the position of main
  seds_response,  \* collector: what the SEDS request gives
  wiki_response,  \* collector: what the Wikipedia request gives
  seds_df,        \* collector: main's seds_df, Unset before its assignment
  wiki_df,        \* collector: main's wiki_df, Unset before its assignment
  files,          \* collector: the CSV files written, in order
  main_error      \* collector: the exception that ended main, or None

classifyVars == <<obj_type, classified>>

distanceVars == <<dist, distance_kly, reparsed>>

sizeVars == <<size, size_arcmin>>

pageVars ==
  <<selected_category, filtered_df, category_counts, mag_stats,
    brightest_cat, dimmest_cat, summary, radar_data, script_error>>

reportVars == <<csv, df, pageVars>>

collectVars ==
  <<pc, seds_response, wiki_response, seds_df, wiki_df, files, main_error>>

vars == <<classifyVars, distanceVars, sizeVars, reportVars, collectVars>>

None == <<"None">>

Unset == <<"unset">>

Str(cs) == <<"str", cs>>

\* the variables of a function that is not being run
IdleClassify == obj_type = None /\ classified = Unset

IdleDistance == dist = None /\ distance_kly = Unset /\ reparsed = Unset

IdleSize == size = None /\ size_arcmin = Unset

IdleReport ==
  /\ csv = <<>> /\ df = <<>>
  /\ selected_category = Unset /\ filtered_df = <<>>
  /\ category_counts = <<>> /\ mag_stats = <<>>
  /\ brightest_cat = Unset /\ dimmest_cat = Unset
  /\ summary = <<>> /\ radar_data = <<>> /\ script_error = None

IdleCollect ==
  /\ pc = "idle"
  /\ seds_response = None /\ wiki_response = None
  /\ seds_df = Unset /\ wiki_df = Unset
  /\ files = <<>> /\ main_error = None

(***************************************************************************)
(* Strings                                                                 *)
(***************************************************************************)
UpperCase ==
  <<"A","B","C","D","E","F","G","H","I","J","K","L","M",
    "N","O","P","Q","R","S","T","U","V","W","X","Y","Z">>

LowerCase ==
  <<"a","b","c","d","e","f","g","h","i","j","k","l","m",
    "n","o","p","q","r","s","t","u","v","w","x","y","z">>

\* str.lower() on one character
lower_char(c) ==
  IF \E i \in 1..Len(UpperCase) : UpperCase[i] = c
  THEN LowerCase[CHOOSE i \in 1..Len(UpperCase) : UpperCase[i] = c]
  ELSE c

\* str.lower()
lower(cs) == [i \in 1..Len(cs) |-> lower_char(cs[i])]

\* Python's `p in cs` on strings: p occurs in cs as a contiguous substring
Contains(cs, p) ==
  \E i \in 0..(Len(cs) - Len(p)) : SubSeq(cs, i + 1, i + Len(p)) = p

(***************************************************************************)
(* categorize_object (src/app.py:29-63)                                    *)
(***************************************************************************)
\* The category labels are the code's Korean strings, kept as their code
\* points so that pandas' sorted group keys can be modelled by comparison.
Cluster == <<49457, 45800>>   \* U+C131 U+B2E8

Galaxy == <<51008, 54616>>    \* U+C740 U+D558

Nebula == <<49457, 50868>>    \* U+C131 U+C6B4

Other == <<44592, 53440>>     \* U+AE30 U+D0C0

pat_globular_cluster == <<"g","l","o","b","u","l","a","r"," ","c","l","u","s","t","e","r">>

pat_open_cluster == <<"o","p","e","n"," ","c","l","u","s","t","e","r">>

pat_barred_spiral == <<"b","a","r","r","e","d"," ","s","p","i","r","a","l">>

pat_spiral_galaxy == <<"s","p","i","r","a","l"," ","g","a","l","a","x","y">>

pat_elliptical_galaxy == <<"e","l","l","i","p","t","i","c","a","l"," ","g","a","l","a","x","y">>

pat_dwarf_elliptical == <<"d","w","a","r","f"," ","e","l","l","i","p","t","i","c","a","l">>

pat_lenticular_galaxy == <<"l","e","n","t","i","c","u","l","a","r"," ","g","a","l","a","x","y">>

pat_starburst_galaxy == <<"s","t","a","r","b","u","r","s","t"," ","g","a","l","a","x","y">>

pat_planetary_nebula == <<"p","l","a","n","e","t","a","r","y"," ","n","e","b","u","l","a">>

pat_h_ii_region == <<"h"," ","i","i"," ","r","e","g","i","o","n">>

pat_nebula == <<"n","e","b","u","l","a">>

pat_supernova == <<"s","u","p","e","r","n","o","v","a">>

pat_nova == <<"n","o","v","a">>

pat_diffuse_nebula == <<"d","i","f","f","u","s","e"," ","n","e","b","u","l","a">>

pat_asterism == <<"a","s","t","e","r","i","s","m">>

pat_milky_way == <<"m","i","l","k","y"," ","w","a","y">>

pat_star_cloud == <<"s","t","a","r"," ","c","l","o","u","d">>

pat_double == <<"d","o","u","b","l","e">>

TypeFragments ==
  { <<"G","l","o","b","u","l","a","r"," ","C","l","u","s","t","e","r">>,
    <<"G","L","O","B","U","L","A","R"," ","c","l","u","s","t","e","r">>,
    <<"O","p","e","n"," ","C","l","u","s","t","e","r">>,
    <<"B","a","r","r","e","d"," ","S","p","i","r","a","l">>,
    <<"S","p","i","r","a","l"," ","G","a","l","a","x","y">>,
    <<" ","G","a","l","a","x","y">>,
    <<"E","l","l","i","p","t","i","c","a","l"," ","G","a","l","a","x","y">>,
    <<"D","w","a","r","f"," ","E","l","l","i","p","t","i","c","a","l">>,
    <<"L","e","n","t","i","c","u","l","a","r"," ","G","a","l","a","x","y">>,
    <<"S","t","a","r","b","u","r","s","t"," ","G","a","l","a","x","y">>,
    <<"P","l","a","n","e","t","a","r","y"," ","N","e","b","u","l","a">>,
    <<"H"," ","I","I"," ","r","e","g","i","o","n">>,
    <<"D","i","f","f","u","s","e"," ","N","e","b","u","l","a">>,
    <<"S","u","p","e","r","n","o","v","a"," ","R","e","m","n","a","n","t">>,
    <<"N","o","v","a">>,
    <<"A","s","t","e","r","i","s","m">>,
    <<"M","i","l","k","y"," ","W","a","y"," ","P","a","t","c","h">>,
    <<"S","t","a","r"," ","c","l","o","u","d">>,
    <<"D","o","u","b","l","e"," ","S","t","a","r">>,
    <<"I","r","r","e","g","u","l","a","r"," ","G","a","l","a","x","y">>,
    <<"B","i","n","a","r","y"," ","S","t","a","r">>,
    <<"U","n","k","n","o","w","n">>,
    <<" ">>,
    <<"i","n"," ">> }

\* categorize_object with 'spiral galaxy' tested before 'barred spiral'.
categorize_object_spiral_first(x) ==
  IF x = None THEN <<Other, "other">>
  ELSE LET t == lower(x[2]) IN
    IF Contains(t, pat_globular_cluster) THEN <<Cluster, "globular cluster">>
    ELSE IF Contains(t, pat_open_cluster) THEN <<Cluster, "open cluster">>
    ELSE IF Contains(t, pat_spiral_galaxy) THEN <<Galaxy, "spiral galaxy">>
    ELSE IF Contains(t, pat_barred_spiral) THEN <<Galaxy, "barred spiral galaxy">>
    ELSE IF Contains(t, pat_elliptical_galaxy) \/ Contains(t, pat_dwarf_elliptical)
      THEN <<Galaxy, "elliptical galaxy">>
    ELSE IF Contains(t, pat_lenticular_galaxy) THEN <<Galaxy, "lenticular galaxy">>
    ELSE IF Contains(t, pat_starburst_galaxy) THEN <<Galaxy, "starburst galaxy">>
    ELSE IF Contains(t, pat_planetary_nebula) THEN <<Nebula, "planetary nebula">>
    ELSE IF Contains(t, pat_h_ii_region) \/ Contains(t, pat_nebula)
      THEN <<Nebula, "emission nebula">>
    ELSE IF Contains(t, pat_supernova) \/ Contains(t, pat_nova)
      THEN <<Nebula, "supernova remnant">>
    ELSE IF Contains(t, pat_diffuse_nebula) THEN <<Nebula, "diffuse nebula">>
    ELSE IF Contains(t, pat_asterism) THEN <<Other, "asterism">>
    ELSE IF Contains(t, pat_milky_way) \/ Contains(t, pat_star_cloud)
      THEN <<Other, "milky way patch">>
    ELSE IF Contains(t, pat_double) THEN <<Other, "binary star">>
    ELSE <<Other, "other">>

\* categorize_object whose final else returns a label outside the fixed set.
categorize_object_no_default(x) ==
  IF x = None THEN <<Other, "other">>
  ELSE LET t == lower(x[2]) IN
    IF Contains(t, pat_globular_cluster) THEN <<Cluster, "globular cluster">>
    ELSE IF Contains(t, pat_open_cluster) THEN <<Cluster, "open cluster">>
    ELSE IF Contains(t, pat_barred_spiral) THEN <<Galaxy, "barred spiral galaxy">>
    ELSE IF Contains(t, pat_spiral_galaxy) THEN <<Galaxy, "spiral galaxy">>
    ELSE IF Contains(t, pat_elliptical_galaxy) \/ Contains(t, pat_dwarf_elliptical)
      THEN <<Galaxy, "elliptical galaxy">>
    ELSE IF Contains(t, pat_lenticular_galaxy) THEN <<Galaxy, "lenticular galaxy">>
    ELSE IF Contains(t, pat_starburst_galaxy) THEN <<Galaxy, "starburst galaxy">>
    ELSE IF Contains(t, pat_planetary_nebula) THEN <<Nebula, "planetary nebula">>
    ELSE IF Contains(t, pat_h_ii_region) \/ Contains(t, pat_nebula)
      THEN <<Nebula, "emission nebula">>
    ELSE IF Contains(t, pat_supernova) \/ Contains(t, pat_nova)
      THEN <<Nebula, "supernova remnant">>
    ELSE IF Contains(t, pat_diffuse_nebula) THEN <<Nebula, "diffuse nebula">>
    ELSE IF Contains(t, pat_asterism) THEN <<Other, "asterism">>
    ELSE IF Contains(t, pat_milky_way) \/ Contains(t, pat_star_cloud)
      THEN <<Other, "milky way patch">>
    ELSE IF Contains(t, pat_double) THEN <<Other, "binary star">>
    ELSE <<Other, "unclassified">>

\* Sub-category labels, in the code's order of return statements:
\*   "globular cluster" 구상성단, "open cluster" 산개성단,
\*   "barred spiral galaxy" 막대나선은하, "spiral galaxy" 나선은하,
\*   "elliptical galaxy" 타원은하, "lenticular galaxy" 렌즈형은하,
\*   "starburst galaxy" 폭발적항성생성은하, "planetary nebula" 행성상성운,
\*   "emission nebula" 발광성운, "supernova remnant" 초신성잔해,
\*   "diffuse nebula" 산광성운, "asterism" 성군, "milky way patch" 은하수영역,
\*   "binary star" 이중성, "other" 기타.
categorize_object(x) ==
  IF x = None THEN <<Other, "other">>
  ELSE LET t == lower(x[2]) IN
    IF Contains(t, pat_globular_cluster) THEN <<Cluster, "globular cluster">>
    ELSE IF Contains(t, pat_open_cluster) THEN <<Cluster, "open cluster">>
    ELSE IF Contains(t, pat_barred_spiral) THEN <<Galaxy, "barred spiral galaxy">>
    ELSE IF Contains(t, pat_spiral_galaxy) THEN <<Galaxy, "spiral galaxy">>
    ELSE IF Contains(t, pat_elliptical_galaxy) \/ Contains(t, pat_dwarf_elliptical)
      THEN <<Galaxy, "elliptical galaxy">>
    ELSE IF Contains(t, pat_lenticular_galaxy) THEN <<Galaxy, "lenticular galaxy">>
    ELSE IF Contains(t, pat_starburst_galaxy) THEN <<Galaxy, "starburst galaxy">>
    ELSE IF Contains(t, pat_planetary_nebula) THEN <<Nebula, "planetary nebula">>
    ELSE IF Contains(t, pat_h_ii_region) \/ Contains(t, pat_nebula)
      THEN <<Nebula, "emission nebula">>
    ELSE IF Contains(t, pat_supernova) \/ Contains(t, pat_nova)
      THEN <<Nebula, "supernova remnant">>
    ELSE IF Contains(t, pat_diffuse_nebula) THEN <<Nebula, "diffuse nebula">>
    ELSE IF Contains(t, pat_asterism) THEN <<Other, "asterism">>
    ELSE IF Contains(t, pat_milky_way) \/ Contains(t, pat_star_cloud)
      THEN <<Other, "milky way patch">>
    ELSE IF Contains(t, pat_double) THEN <<Other, "binary star">>
    ELSE <<Other, "other">>

(***************************************************************************)
(* Classifier runs: a raw object_type cell is drawn, categorize_object is  *)
(* applied to it (df['object_type'].apply, src/app.py:66-68).              *)
(***************************************************************************)
MaxTypeFragments == 2

RECURSIVE Concats(_, _)
\* every concatenation of at most n members of frags
Concats(frags, n) ==
  IF n = 0 THEN {<<>>}
  ELSE LET shorter == Concats(frags, n - 1)
       IN shorter \cup {p \o f : p \in shorter, f \in frags}

ObjectTypes == {None} \cup {Str(cs) : cs \in Concats(TypeFragments, MaxTypeFragments)}

InitClassify ==
  /\ obj_type \in ObjectTypes
  /\ classified = Unset
  /\ IdleDistance
  /\ IdleSize
  /\ IdleReport
  /\ IdleCollect

Categorize ==
  /\ classified' = categorize_object(obj_type)
  /\ UNCHANGED <<obj_type, distanceVars, sizeVars, reportVars, collectVars>>

NextClassify == Categorize

SpecClassify == InitClassify /\ [][NextClassify]_vars

(***************************************************************************)
(* Claims about the classifier                                             *)
(***************************************************************************)
\* The ordered pattern table of the classifier as the specification states
\* it: entry i is <<the substrings of rule i, the pair rule i returns>>.
RuleTable ==
  << <<{pat_globular_cluster}, <<Cluster, "globular cluster">> >>,
     <<{pat_open_cluster}, <<Cluster, "open cluster">> >>,
     <<{pat_barred_spiral}, <<Galaxy, "barred spiral galaxy">> >>,
     <<{pat_spiral_galaxy}, <<Galaxy, "spiral galaxy">> >>,
     <<{pat_elliptical_galaxy, pat_dwarf_elliptical}, <<Galaxy, "elliptical galaxy">> >>,
     <<{pat_lenticular_galaxy}, <<Galaxy, "lenticular galaxy">> >>,
     <<{pat_starburst_galaxy}, <<Galaxy, "starburst galaxy">> >>,
     <<{pat_planetary_nebula}, <<Nebula, "planetary nebula">> >>,
     <<{pat_h_ii_region, pat_nebula}, <<Nebula, "emission nebula">> >>,
     <<{pat_supernova, pat_nova}, <<Nebula, "supernova remnant">> >>,
     <<{pat_diffuse_nebula}, <<Nebula, "diffuse nebula">> >>,
     <<{pat_asterism}, <<Other, "asterism">> >>,
     <<{pat_milky_way, pat_star_cloud}, <<Other, "milky way patch">> >>,
     <<{pat_double}, <<Other, "binary star">> >> >>

DiffuseRule == CHOOSE i \in 1..Len(RuleTable) : RuleTable[i][1] = {pat_diffuse_nebula}

\* rule i of the table matches the lower-cased text t
Matches(t, i) == \E p \in RuleTable[i][1] : Contains(t, p)

Categories == {Cluster, Galaxy, Nebula, Other}

SubCategories == {RuleTable[i][2][2] : i \in 1..Len(RuleTable)} \cup {"other"}

\* C1: the classifier returns the pair of the first table entry that has a
\* pattern occurring (case-insensitively) in the input; every input
\* containing "globular cluster" gives (Cluster, globular cluster), and every
\* input containing "barred spiral" but neither "globular cluster" nor
\* "open cluster" gives (Galaxy, barred spiral galaxy).
C1_FirstMatchWins ==
  (classified # Unset /\ obj_type # None) =>
    LET t == lower(obj_type[2]) IN
      /\ \A i \in 1..Len(RuleTable) :
           (Matches(t, i) /\ \A j \in 1..(i - 1) : ~Matches(t, j))
             => classified = RuleTable[i][2]
      /\ Contains(t, pat_globular_cluster)
           => classified = <<Cluster, "globular cluster">>
      /\ ( /\ Contains(t, pat_barred_spiral)
           /\ ~Contains(t, pat_globular_cluster)
           /\ ~Contains(t, pat_open_cluster) )
           => classified = <<Galaxy, "barred spiral galaxy">>

\* A mixed-case input containing both "barred spiral" and "spiral galaxy"
\* has been classified as a barred spiral galaxy.
C1_Witness ==
  /\ obj_type # None
  /\ obj_type[2] # lower(obj_type[2])
  /\ Contains(lower(obj_type[2]), pat_barred_spiral)
  /\ Contains(lower(obj_type[2]), pat_spiral_galaxy)
  /\ classified = <<Galaxy, "barred spiral galaxy">>

\* C2: every input that contains "diffuse nebula" and matches no pattern of
\* an earlier table entry other than "nebula" (which it necessarily
\* contains) is classified (Nebula, diffuse nebula).
C2_DiffuseNebula ==
  (classified # Unset /\ obj_type # None) =>
    LET t == lower(obj_type[2]) IN
      ( /\ Contains(t, pat_diffuse_nebula)
        /\ \A j \in 1..(DiffuseRule - 1) :
             \A p \in RuleTable[j][1] \ {pat_nebula} : ~Contains(t, p) )
        => classified = <<Nebula, "diffuse nebula">>

\* C3: every call returns a pair of a category of the fixed set and a
\* sub-category of the fixed labels; an absent input, an empty input and an
\* input matching no pattern give (Other, other).
C3_TotalWithDefault ==
  classified # Unset =>
    /\ classified[1] \in Categories
    /\ classified[2] \in SubCategories
    /\ ( \/ obj_type = None
         \/ \A i \in 1..Len(RuleTable) : ~Matches(lower(obj_type[2]), i) )
         => classified = <<Other, "other">>

\* A non-empty input that matches no pattern has been classified.
C3_Witness ==
  /\ obj_type # None
  /\ Len(obj_type[2]) > 0
  /\ \A i \in 1..Len(RuleTable) : ~Matches(lower(obj_type[2]), i)
  /\ classified = <<Other, "other">>

(***************************************************************************)
(* Floats: the rational n/d as <<"float", n, d>>, d > 0, in lowest terms.   *)
(* Arithmetic is exact; the binary rounding of a double is not modelled.   *)
(***************************************************************************)
RECURSIVE GCD(_, _)
GCD(a, b) == IF b = 0 THEN a ELSE GCD(b, a % b)

Abs(n) == IF n < 0 THEN -n ELSE n

Rat(n, d) ==
  LET g == GCD(Abs(n), d) IN <<"float", n \div g, d \div g>>

IsFloat(v) == v[1] = "float"

IsRaise(v) == v[1] = "raise"

ValueError == <<"raise", "ValueError">>

IndexError == <<"raise", "IndexError">>

RECURSIVE Pow10(_)
Pow10(k) == IF k = 0 THEN 1 ELSE 10 * Pow10(k - 1)

\* a + b on floats
AddFloat(a, b) ==
  LET l == (a[3] * b[3]) \div GCD(a[3], b[3])
  IN Rat(a[2] * (l \div a[3]) + b[2] * (l \div b[3]), l)

\* a / k on floats, k a positive integer
DivFloat(a, k) ==
  LET g == GCD(Abs(a[2]), k) IN Rat(a[2] \div g, a[3] * (k \div g))

Digits == <<"0","1","2","3","4","5","6","7","8","9">>

IsDigit(c) == \E i \in 1..Len(Digits) : Digits[i] = c

DigitVal(c) == (CHOOSE i \in 1..Len(Digits) : Digits[i] = c) - 1

RECURSIVE IntOf(_)
\* the integer a sequence of digits denotes; 0 for the empty sequence
IntOf(ds) ==
  IF ds = <<>> THEN 0
  ELSE 10 * IntOf(SubSeq(ds, 1, Len(ds) - 1)) + DigitVal(ds[Len(ds)])

\* str.isspace() on the characters that occur here
IsSpace(c) == c \in {" ", "\t", "\n"}

RECURSIVE strip(_)
\* str.strip(): float() ignores leading and trailing whitespace
strip(cs) ==
  IF cs = <<>> THEN cs
  ELSE IF IsSpace(Head(cs)) THEN strip(Tail(cs))
  ELSE IF IsSpace(cs[Len(cs)]) THEN strip(SubSeq(cs, 1, Len(cs) - 1))
  ELSE cs

\* Python's float(str) on decimal literals: optional surrounding blanks, an
\* optional sign, digits with at most one point and at least one digit.
\* Anything else raises ValueError.  (Exponents, underscores, "inf" and
\* "nan" are never passed to it by the cells drawn below.)
float_of(cs) ==
  LET s == strip(cs)
      signed == s # <<>> /\ Head(s) \in {"+", "-"}
      body == IF signed THEN Tail(s) ELSE s
      points == {i \in 1..Len(body) : body[i] = "."}
      ok == /\ \A i \in 1..Len(body) : IsDigit(body[i]) \/ body[i] = "."
            /\ Cardinality(points) <= 1
            /\ \E i \in 1..Len(body) : IsDigit(body[i])
  IN IF ~ok THEN ValueError
     ELSE LET ds == SelectSeq(body, IsDigit)
              p == IF points = {} THEN Len(body) ELSE CHOOSE i \in points : TRUE
              frac == IF points = {} THEN 0 ELSE Len(body) - p
              mag == IntOf(ds)
          IN Rat(IF signed /\ Head(s) = "-" THEN -mag ELSE mag, Pow10(frac))

(***************************************************************************)
(* str(float): Python's repr of a float                                    *)
(***************************************************************************)
\* the significant digits repr prints at most
ReprDigits == 17

RECURSIVE IntDigits(_)
IntDigits(n) ==
  IF n < 10 THEN <<Digits[n + 1]>>
  ELSE IntDigits(n \div 10) \o <<Digits[(n % 10) + 1]>>

RECURSIVE FracDigits(_, _, _)
\* the digits after the point of r/d (0 <= r < d): all of them when the
\* expansion ends within k digits, else the first k
FracDigits(r, d, k) ==
  IF r = 0 \/ k = 0 THEN <<>>
  ELSE <<Digits[((r * 10) \div d) + 1]>> \o FracDigits((r * 10) % d, d, k - 1)

RECURSIVE LeadingZeros(_, _)
\* the number of zeros between the point and the first non-zero digit of r/d
LeadingZeros(r, d) == IF r * 10 >= d THEN 0 ELSE 1 + LeadingZeros(r * 10, d)

\* repr(v): positional notation when the decimal exponent e of the first
\* significant digit has -4 <= e < 16, else d[.ddd]e+XX / d[.ddd]e-XX
float_str(v) ==
  LET n == Abs(v[2])
      d == v[3]
      sign == IF v[2] < 0 THEN <<"-">> ELSE <<>>
      whole == n \div d
      r == n % d
      intds == IntDigits(whole)
      z == IF whole = 0 /\ r # 0 THEN LeadingZeros(r, d) ELSE 0
      frac == IF whole > 0
              THEN FracDigits(r, d, IF Len(intds) >= ReprDigits THEN 0
                                    ELSE ReprDigits - Len(intds))
              ELSE FracDigits(r, d, z + ReprDigits)
      e == IF whole > 0 THEN Len(intds) - 1 ELSE -(z + 1)
      all == IF whole > 0 THEN intds \o frac ELSE SubSeq(frac, z + 1, Len(frac))
      last == CHOOSE i \in 1..Len(all) :
                all[i] # "0" /\ \A j \in (i + 1)..Len(all) : all[j] = "0"
      sig == SubSeq(all, 1, last)
      exp == IntDigits(Abs(e))
  IN IF n = 0 THEN sign \o <<"0", ".", "0">>
     ELSE IF e >= -4 /\ e < 16
       THEN sign \o intds \o <<".">> \o (IF frac = <<>> THEN <<"0">> ELSE frac)
     ELSE sign \o <<sig[1]>>
          \o (IF Len(sig) > 1 THEN <<".">> \o Tail(sig) ELSE <<>>)
          \o <<"e", IF e < 0 THEN "-" ELSE "+">>
          \o (IF Len(exp) < 2 THEN <<"0">> \o exp ELSE exp)

(***************************************************************************)
(* parse_distance (src/app.py:74-88)                                       *)
(***************************************************************************)
\* the one character U+2013 EN DASH
EnDash == "U+2013"

IsDash(c) == c = EnDash \/ c = "-"

\* str.replace(c, '')
remove(cs, c) == SelectSeq(cs, LAMBDA x : x # c)

\* re.sub(r'[^\d.]', '', p)
numeric_only(p) == SelectSeq(p, LAMBDA x : IsDigit(x) \/ x = ".")

RECURSIVE split_dash(_)
\* re.split(r'[–-]', cs): the pieces between the dashes, empty ones kept
split_dash(cs) ==
  IF \A i \in 1..Len(cs) : ~IsDash(cs[i]) THEN <<cs>>
  ELSE LET k == CHOOSE i \in 1..Len(cs) :
                  IsDash(cs[i]) /\ \A j \in 1..(i - 1) : ~IsDash(cs[j])
       IN <<SubSeq(cs, 1, k - 1)>> \o split_dash(SubSeq(cs, k + 1, Len(cs)))

RECURSIVE sum_floats(_)
sum_floats(nums) ==
  IF Len(nums) = 1 THEN nums[1] ELSE AddFloat(nums[1], sum_floats(Tail(nums)))

\* np.mean of a non-empty list of floats
mean(nums) == DivFloat(sum_floats(nums), Len(nums))

\* parse_distance whose list comprehension has no `if re.sub(...)` filter.
parse_distance_no_filter(x) ==
  IF x = None THEN None
  ELSE LET d == remove(remove(x[2], ","), "~") IN
    IF \E i \in 1..Len(d) : IsDash(d[i])
    THEN LET parts == split_dash(d)
             nums == [i \in 1..Len(parts) |-> float_of(numeric_only(parts[i]))]
         IN IF \E i \in 1..Len(nums) : IsRaise(nums[i]) THEN None
            ELSE IF nums # <<>> THEN mean(nums) ELSE None
    ELSE LET v == float_of(numeric_only(d))
         IN IF IsRaise(v) THEN None ELSE v

\* parse_distance without the try/except around the single float().
parse_distance_no_except(x) ==
  IF x = None THEN None
  ELSE LET d == remove(remove(x[2], ","), "~") IN
    IF \E i \in 1..Len(d) : IsDash(d[i])
    THEN LET parts == split_dash(d)
             kept == SelectSeq(parts, LAMBDA p : numeric_only(p) # <<>>)
             nums == [i \in 1..Len(kept) |-> float_of(numeric_only(kept[i]))]
         IN IF \E i \in 1..Len(nums) : IsRaise(nums[i]) THEN None
            ELSE IF nums # <<>> THEN mean(nums) ELSE None
    ELSE float_of(numeric_only(d))

\* x is None (pd.isna) or a str.  The list comprehension keeps the parts
\* whose residue is non-empty and calls float() on each; the first float()
\* that raises leaves the comprehension and the bare except returns None.
parse_distance(x) ==
  IF x = None THEN None
  ELSE LET d == remove(remove(x[2], ","), "~") IN
    IF \E i \in 1..Len(d) : IsDash(d[i])
    THEN LET parts == split_dash(d)
             kept == SelectSeq(parts, LAMBDA p : numeric_only(p) # <<>>)
             nums == [i \in 1..Len(kept) |-> float_of(numeric_only(kept[i]))]
         IN IF \E i \in 1..Len(nums) : IsRaise(nums[i]) THEN None
            ELSE IF nums # <<>> THEN mean(nums) ELSE None
    ELSE LET v == float_of(numeric_only(d))
         IN IF IsRaise(v) THEN None ELSE v

(***************************************************************************)
(* Distance runs: a raw distance cell is drawn and parse_distance applied  *)
(* (df['distance'].apply, src/app.py:90).                                  *)
(***************************************************************************)
MaxDistFragments == 3

MaxDigits == 7

DistFragments ==
  { <<"~">>,
    <<"2">>,
    <<",">>,
    <<"2",",","5","0","0">>,
    <<"2","5">>,
    <<"7",".","5">>,
    <<"8",".","2">>,
    <<"0",".","0","0","0","0","1">>,
    <<".">>,
    <<"-">>,
    <<"u","n","k","n","o","w","n">>,
    <<" ","k","l","y">>,
    <<EnDash>> }

DistanceCells ==
  {None} \cup
  {Str(cs) : cs \in {c \in Concats(DistFragments, MaxDistFragments) :
                       Len(SelectSeq(c, IsDigit)) <= MaxDigits}}

InitDistance ==
  /\ dist \in DistanceCells
  /\ distance_kly = Unset
  /\ reparsed = Unset
  /\ IdleClassify
  /\ IdleSize
  /\ IdleReport
  /\ IdleCollect

ParseDistance ==
  /\ distance_kly = Unset
  /\ distance_kly' = parse_distance(dist)
  /\ UNCHANGED <<dist, reparsed, classifyVars, sizeVars, reportVars, collectVars>>

\* parse_distance applied to the string form of the float it returned
ParseAgain ==
  /\ distance_kly # Unset /\ IsFloat(distance_kly)
  /\ reparsed = Unset
  /\ reparsed' = parse_distance(Str(float_str(distance_kly)))
  /\ UNCHANGED <<dist, distance_kly, classifyVars, sizeVars, reportVars, collectVars>>

NextDistance == ParseDistance \/ ParseAgain

SpecDistance == InitDistance /\ [][NextDistance]_vars

(***************************************************************************)
(* Claims about distance parsing                                           *)
(***************************************************************************)
\* the cell with "," and "~" removed
Cleaned(x) == remove(remove(x[2], ","), "~")

HasDash(cs) == \E i \in 1..Len(cs) : IsDash(cs[i])

\* The parts of a range, stated by position: the stretches of cs between
\* consecutive cuts, a cut being a dash, the start or the end.
Cuts(cs) == {0, Len(cs) + 1} \cup {i \in 1..Len(cs) : IsDash(cs[i])}

PartAfter(cs, a) ==
  LET b == CHOOSE c \in Cuts(cs) : c > a /\ \A m \in Cuts(cs) : ~(a < m /\ m < c)
  IN numeric_only(SubSeq(cs, a + 1, b - 1))

\* the cuts that start a part whose residue (digits and points) is not empty
NonEmptyParts(cs) == {a \in Cuts(cs) \ {Len(cs) + 1} : PartAfter(cs, a) # <<>>}

\* a residue float() accepts: at least one digit and at most one point
ValidResidue(r) ==
  /\ \E i \in 1..Len(r) : IsDigit(r[i])
  /\ Cardinality({i \in 1..Len(r) : r[i] = "."}) <= 1

RECURSIVE SumParts(_, _)
\* the sum of the floats of the parts starting at the cuts in as (non-empty)
SumParts(cs, as) ==
  LET a == CHOOSE m \in as : TRUE
  IN IF as = {a} THEN float_of(PartAfter(cs, a))
     ELSE AddFloat(float_of(PartAfter(cs, a)), SumParts(cs, as \ {a}))

MeanParts(cs, as) == DivFloat(SumParts(cs, as), Cardinality(as))

\* C4 as stated: for a cell with a dash the result is the mean of the parts
\* that parse; a part that fails to parse is left out and never makes the
\* result absent.
C4_SkipsUnparsedParts ==
  (distance_kly # Unset /\ dist # None /\ HasDash(Cleaned(dist))) =>
    LET cs == Cleaned(dist)
        good == {a \in NonEmptyParts(cs) : ValidResidue(PartAfter(cs, a))}
    IN good # {} => distance_kly = MeanParts(cs, good)

\* C4 as amended: for a cell with a dash, a part whose residue is empty is
\* left out; if some non-empty residue is not a valid float the result is
\* absent; otherwise the result is the mean of the floats of the non-empty
\* residues, absent when there is none.
C4_RangeMean ==
  (distance_kly # Unset /\ dist # None /\ HasDash(Cleaned(dist))) =>
    LET cs == Cleaned(dist)
        kept == NonEmptyParts(cs)
    IN distance_kly =
         IF \E a \in kept : ~ValidResidue(PartAfter(cs, a)) THEN None
         ELSE IF kept = {} THEN None
         ELSE MeanParts(cs, kept)

\* A range with one side that has no digit or point and one numeric side has
\* been parsed to the numeric side's value.
C4_Witness ==
  /\ dist # None /\ HasDash(Cleaned(dist))
  /\ Cardinality(Cuts(Cleaned(dist))) = 3
  /\ \E a \in Cuts(Cleaned(dist)) \ {Len(Cleaned(dist)) + 1} :
       /\ NonEmptyParts(Cleaned(dist)) = {a}
       /\ \E b \in 1..Len(Cleaned(dist)) : ~IsDash(Cleaned(dist)[b]) /\ ~IsDigit(Cleaned(dist)[b])
       /\ distance_kly = float_of(PartAfter(Cleaned(dist), a))
  /\ IsFloat(distance_kly)

\* C5: parse_distance never raises; an absent cell gives absent; a cell
\* without a dash gives the float of its digits and points when they form a
\* valid float and absent otherwise.  "~2,500" gives 2500.0, "~" and
\* "unknown" give absent.
C5_SingleValue ==
  distance_kly # Unset =>
    /\ ~IsRaise(distance_kly)
    /\ dist = None => distance_kly = None
    /\ (dist # None /\ ~HasDash(dist[2])) =>
         distance_kly = IF ValidResidue(numeric_only(dist[2]))
                        THEN float_of(numeric_only(dist[2]))
                        ELSE None
    /\ dist = Str(<<"~","2",",","5","0","0">>) => distance_kly = <<"float", 2500, 1>>
    /\ dist = Str(<<"~">>) => distance_kly = None
    /\ dist = Str(<<"u","n","k","n","o","w","n">>) => distance_kly = None

\* "~2,500" has been parsed to 2500.0.
C5_Witness ==
  /\ dist = Str(<<"~","2",",","5","0","0">>)
  /\ distance_kly = <<"float", 2500, 1>>

\* C6: parsing the string form of a parsed float gives the same float.
C6_Idempotent ==
  reparsed # Unset => reparsed = distance_kly

(***************************************************************************)
(* clean_data.parse_size (src/celestial_scraper.py:298-311)                *)
(***************************************************************************)
IsX(c) == c = "x" \/ c = "X"

RECURSIVE split_x(_)
\* re.split(r'[xX]', cs): the pieces between the separators, empty ones kept
split_x(cs) ==
  IF \A i \in 1..Len(cs) : ~IsX(cs[i]) THEN <<cs>>
  ELSE LET k == CHOOSE i \in 1..Len(cs) :
                  IsX(cs[i]) /\ \A j \in 1..(i - 1) : ~IsX(cs[j])
       IN <<SubSeq(cs, 1, k - 1)>> \o split_x(SubSeq(cs, k + 1, Len(cs)))

\* x is None (pd.isna) or a str.  With an "x" in s.lower() the first two
\* pieces are passed to float(); the bare except turns any error into None.
parse_size(x) ==
  IF x = None THEN None
  ELSE LET s == x[2] IN
    IF Contains(lower(s), <<"x">>)
    THEN LET parts == split_x(s)
             a == IF Len(parts) >= 1 THEN float_of(parts[1]) ELSE IndexError
             b == IF Len(parts) >= 2 THEN float_of(parts[2]) ELSE IndexError
         IN IF IsRaise(a) \/ IsRaise(b) THEN None
            ELSE DivFloat(AddFloat(a, b), 2)
    ELSE LET v == float_of(s)
         IN IF IsRaise(v) THEN None ELSE v

(***************************************************************************)
(* Size runs: a size cell is drawn and parse_size applied                  *)
(* (df['size'].apply, src/celestial_scraper.py:313).                       *)
(***************************************************************************)
MaxSizeFragments == 3

SizeFragments ==
  { <<"1","7","x","1","0">>,
    <<"1","7">>,
    <<"1","0">>,
    <<"1","2">>,
    <<"x">>,
    <<"X">>,
    <<"n","/","a">>,
    <<" ">>,
    <<"0",".","8">>,
    <<"-">> }

SizeCells == {None} \cup {Str(cs) : cs \in Concats(SizeFragments, MaxSizeFragments)}

InitSize ==
  /\ size \in SizeCells
  /\ size_arcmin = Unset
  /\ IdleClassify
  /\ IdleDistance
  /\ IdleReport
  /\ IdleCollect

ParseSize ==
  /\ size_arcmin = Unset
  /\ size_arcmin' = parse_size(size)
  /\ UNCHANGED <<size, classifyVars, distanceVars, reportVars, collectVars>>

NextSize == ParseSize

SpecSize == InitSize /\ [][NextSize]_vars

(***************************************************************************)
(* Claims about size parsing                                               *)
(***************************************************************************)
Numeric(cs) == IsFloat(float_of(cs))

\* C7: parse_size never raises and has exactly three outcomes: "A x B" with
\* one separator (x or X) and A, B numeric gives (A + B) / 2; a single number
\* gives that number; every other input gives absent.
C7_ThreeOutcomes ==
  size_arcmin # Unset =>
    /\ ~IsRaise(size_arcmin)
    /\ size = None => size_arcmin = None
    /\ size # None =>
         LET s == size[2]
             xs == {i \in 1..Len(s) : IsX(s[i])}
         IN IF xs = {}
            THEN size_arcmin = IF Numeric(s) THEN float_of(s) ELSE None
            ELSE LET k == CHOOSE i \in xs : TRUE
                     A == SubSeq(s, 1, k - 1)
                     B == SubSeq(s, k + 1, Len(s))
                 IN size_arcmin =
                      IF Cardinality(xs) = 1 /\ Numeric(A) /\ Numeric(B)
                      THEN DivFloat(AddFloat(float_of(A), float_of(B)), 2)
                      ELSE None

(***************************************************************************)
(* load_and_process_data (src/app.py:22-92)                                *)
(***************************************************************************)
\* pd.to_numeric(cell, errors='coerce'): an empty cell (NaN) and a cell that
\* is not a number give NaN, modelled as None like every missing value
to_numeric(cell) ==
  IF cell = None THEN None
  ELSE LET v == float_of(cell[2]) IN IF IsRaise(v) THEN None ELSE v

\* one row of the enriched table: the raw columns and the four derived ones
enrich(r) ==
  LET c == categorize_object(r.object_type)
  IN [messier |-> r.messier, object_type |-> r.object_type,
      magnitude |-> r.magnitude, distance |-> r.distance,
      category |-> c[1], sub_category |-> c[2],
      magnitude_num |-> to_numeric(r.magnitude),
      distance_kly |-> parse_distance(r.distance)]

\* variant: rows whose magnitude does not parse are dropped
load_and_process_data_drop_invalid(t) ==
  SelectSeq([i \in 1..Len(t) |-> enrich(t[i])],
            LAMBDA r : r.magnitude_num # None)

load_and_process_data(t) == [i \in 1..Len(t) |-> enrich(t[i])]

(***************************************************************************)
(* pandas operations of the script                                         *)
(***************************************************************************)
\* the selectbox entry '전체' (U+C804 U+CCB4)
AllLabel == <<51204, 52404>>

Range(s) == {s[i] : i \in 1..Len(s)}

RECURSIVE StrLess(_, _)
\* Python's a < b on strings given as code points
StrLess(a, b) ==
  IF a = <<>> THEN b # <<>>
  ELSE IF b = <<>> THEN FALSE
  ELSE IF a[1] # b[1] THEN a[1] < b[1]
  ELSE StrLess(Tail(a), Tail(b))

RECURSIVE unique(_)
\* Series.unique(): the distinct values in order of first appearance
unique(col) ==
  IF col = <<>> THEN <<>>
  ELSE LET u == unique(SubSeq(col, 1, Len(col) - 1))
       IN IF col[Len(col)] \in Range(u) THEN u ELSE Append(u, col[Len(col)])

RECURSIVE sorted(_)
\* the members of a set of strings in ascending order
sorted(S) ==
  IF S = {} THEN <<>>
  ELSE LET m == CHOOSE x \in S : \A y \in S \ {x} : StrLess(x, y)
       IN <<m>> \o sorted(S \ {m})

\* groupby('category'): the group keys, sorted (sort=True is the default)
group_keys(t) == sorted({t[i].category : i \in 1..Len(t)})

\* the rows of group c, in table order
group(t, c) == SelectSeq(t, LAMBDA r : r.category = c)

dropna(col) == SelectSeq(col, LAMBDA v : v # None)

LessFloat(a, b) == a[2] * b[3] < b[2] * a[3]

\* 'mean' of a column: NaN when it has no value
series_mean(col) ==
  LET v == dropna(col) IN IF v = <<>> THEN None ELSE mean(v)

\* 'min' of a column: NaN when it has no value
series_min(col) ==
  LET v == dropna(col)
  IN IF v = <<>> THEN None
     ELSE v[CHOOSE i \in 1..Len(v) : \A j \in 1..Len(v) : ~LessFloat(v[j], v[i])]

\* 'max' of a column: NaN when it has no value
series_max(col) ==
  LET v == dropna(col)
  IN IF v = <<>> THEN None
     ELSE v[CHOOSE i \in 1..Len(v) : \A j \in 1..Len(v) : ~LessFloat(v[i], v[j])]

\* 'count' of a column: the number of values that are not missing
series_count(col) == Len(dropna(col))

\* .round(k) of one cell: to the nearest multiple of 10^-k, ties to even
round(v, k) ==
  IF v = None THEN None
  ELSE LET num == v[2] * Pow10(k)
           q == num \div v[3]
           r == num % v[3]
       IN Rat(IF 2 * r < v[3] THEN q
              ELSE IF 2 * r > v[3] THEN q + 1
              ELSE IF q % 2 = 0 THEN q ELSE q + 1, Pow10(k))

Column(t, name) == [i \in 1..Len(t) |-> t[i][name]]

\* df['category'].value_counts()
value_counts(t) ==
  [c \in Range(group_keys(t)) |-> Len(group(t, c))]

\* df.groupby('category')['magnitude_num'].agg([...]).round(2); the median
\* and std columns are displayed only and are left out
mag_stats_of(t) ==
  [c \in Range(group_keys(t)) |->
     LET col == Column(group(t, c), "magnitude_num")
     IN [mean |-> round(series_mean(col), 2),
         min |-> round(series_min(col), 2),
         max |-> round(series_max(col), 2)]]

\* df.groupby('category').agg({'messier': 'count', 'magnitude_num':
\* ['mean', 'std'], 'distance_kly': 'mean'}).round(2), std left out
summary_of(t) ==
  [c \in Range(group_keys(t)) |->
     [count |-> series_count(Column(group(t, c), "messier")),
      mean_mag |-> round(series_mean(Column(group(t, c), "magnitude_num")), 2),
      mean_dist |-> round(series_mean(Column(group(t, c), "distance_kly")), 2)]]

\* Series.idxmin() where the last of several equal minima is taken.
idxmin_last(keys, val) ==
  LET valid == {i \in 1..Len(keys) : val[keys[i]] # None}
  IN IF keys = <<>> THEN {<<"raise">>}
     ELSE IF valid = {} THEN {<<"nan">>, <<"raise">>}
     ELSE {<<"label", keys[CHOOSE i \in valid :
                 /\ \A j \in valid : ~LessFloat(val[keys[j]], val[keys[i]])
                 /\ \A j \in valid : j > i => val[keys[j]] # val[keys[i]]]>>}

\* Series.idxmin() over the series val indexed by keys (in that order): the
\* first label of the smallest value that is not NaN.  On an empty series it
\* raises ValueError; on a series of NaN only it returns NaN or raises
\* ValueError, depending on the pandas version.
idxmin(keys, val) ==
  LET valid == {i \in 1..Len(keys) : val[keys[i]] # None}
  IN IF keys = <<>> THEN {<<"raise">>}
     ELSE IF valid = {} THEN {<<"nan">>, <<"raise">>}
     ELSE {<<"label", keys[CHOOSE i \in valid :
                 /\ \A j \in valid : ~LessFloat(val[keys[j]], val[keys[i]])
                 /\ \A j \in valid : j < i => val[keys[j]] # val[keys[i]]]>>}

\* Series.idxmax(): the first label of the largest value that is not NaN
idxmax(keys, val) ==
  LET valid == {i \in 1..Len(keys) : val[keys[i]] # None}
  IN IF keys = <<>> THEN {<<"raise">>}
     ELSE IF valid = {} THEN {<<"nan">>, <<"raise">>}
     ELSE {<<"label", keys[CHOOSE i \in valid :
                 /\ \A j \in valid : ~LessFloat(val[keys[i]], val[keys[j]])
                 /\ \A j \in valid : j < i => val[keys[j]] # val[keys[i]]]>>}

KeyError == <<"raise", "KeyError">>

(***************************************************************************)
(* The normalized comparison (src/app.py:447-450).  Float arithmetic with  *)
(* NaN (None): an operation with a NaN operand gives NaN; x / 0 gives NaN  *)
(* for x = 0 and infinity otherwise, and does not raise.                   *)
(***************************************************************************)
Inf == <<"inf">>

NegFloat(a) == <<"float", -a[2], a[3]>>

sub_float(a, b) ==
  IF a = None \/ b = None THEN None ELSE AddFloat(a, NegFloat(b))

add_float(a, b) ==
  IF a = None \/ b = None THEN None ELSE AddFloat(a, b)

div_float(a, b) ==
  IF a = None \/ b = None THEN None
  ELSE IF b[2] = 0 THEN (IF a[2] = 0 THEN None ELSE Inf)
  ELSE IF b[2] > 0 THEN Rat(a[2] * b[3], a[3] * b[2])
  ELSE Rat(-(a[2] * b[3]), a[3] * (-b[2]))

\* Series.fillna(v)
fillna(a, v) == IF a = None THEN v ELSE a

\* the 0.01 added to both denominators
Epsilon == Rat(1, 100)

\* radar_data: for every group of the summary table s the three normalized
\* columns 개수_norm, 밝기_norm, 거리_norm
radar_of(s) ==
  LET keys == sorted(DOMAIN s)
      counts == [i \in 1..Len(keys) |-> Rat(s[keys[i]].count, 1)]
      mags == [i \in 1..Len(keys) |-> s[keys[i]].mean_mag]
      dists == [i \in 1..Len(keys) |-> s[keys[i]].mean_dist]
  IN [c \in DOMAIN s |->
       [count_norm |-> div_float(Rat(s[c].count, 1), series_max(counts)),
        bright_norm |->
          sub_float(Rat(1, 1),
                    div_float(sub_float(s[c].mean_mag, series_min(mags)),
                              add_float(sub_float(series_max(mags), series_min(mags)),
                                        Epsilon))),
        dist_norm |->
          div_float(fillna(s[c].mean_dist, Rat(0, 1)),
                    add_float(series_max(dists), Epsilon))]]

\* the categories drawn on the radar chart (src/app.py:456-457)
plotted(r) == DOMAIN r \ {Other}

\* the script has run and reached its end
Rendered == selected_category # Unset /\ script_error = None

(***************************************************************************)
(* The Reporter: one run of the script (src/app.py:94-509).  Streamlit     *)
(* runs the whole script on start and again on every selectbox change; the *)
(* enriched table is loaded once and cached.                               *)
(***************************************************************************)
MaxRows == 3

RawRows ==
  { [messier |-> Str(<<"M","1","3">>), object_type |-> Str(<<"G","l","o","b","u","l","a","r"," ","C","l","u","s","t","e","r">>),
      magnitude |-> Str(<<"6",".","5">>), distance |-> Str(<<"2","5">>)],
    [messier |-> Str(<<"M","3","1">>), object_type |-> Str(<<"S","p","i","r","a","l"," ","G","a","l","a","x","y">>),
      magnitude |-> Str(<<"9",".","0">>), distance |-> Str(<<"2",",","5","0","0">>)],
    [messier |-> Str(<<"M","4","0">>), object_type |-> None,
      magnitude |-> Str(<<"b","a","d">>), distance |-> Str(<<"~">>)],
    [messier |-> Str(<<"M","5","7">>), object_type |-> Str(<<"P","l","a","n","e","t","a","r","y"," ","N","e","b","u","l","a">>),
      magnitude |-> Str(<<"6",".","5">>), distance |-> Str(<<"1",".","2",EnDash,"1",".","4">>)],
    [messier |-> Str(<<"M","7","3">>), object_type |-> Str(<<"A","s","t","e","r","i","s","m">>),
      magnitude |-> Str(<<"6",".","5">>), distance |-> Str(<<"u","n","k","n","o","w","n">>)],
    [messier |-> Str(<<"M","4","4">>), object_type |-> Str(<<"O","p","e","n"," ","C","l","u","s","t","e","r">>),
      magnitude |-> Str(<<"6",".","5","0","4">>), distance |-> Str(<<"2","5">>)],
    [messier |-> Str(<<"M","9","5">>), object_type |-> Str(<<"B","a","r","r","e","d"," ","S","p","i","r","a","l"," ","G","a","l","a","x","y">>),
      magnitude |-> Str(<<"6",".","5">>), distance |-> None],
    [messier |-> Str(<<"M","8">>), object_type |-> Str(<<"D","i","f","f","u","s","e"," ","N","e","b","u","l","a">>),
      magnitude |-> None, distance |-> Str(<<"2","5">>)] }

Tables == UNION {[1..n -> RawRows] : n \in 0..MaxRows}

\* the selectbox options (src/app.py:107)
categories(d) == <<AllLabel>> \o unique(Column(d, "category"))

\* The script from the sidebar on, with table d and selection sel.  An
\* exception ends the run: what follows it is not computed.
RunScript(d, sel) ==
  LET stats == mag_stats_of(d)
      keys == group_keys(d)
      means == [c \in Range(keys) |-> stats[c].mean]
  IN
  /\ selected_category' = sel
  /\ filtered_df' = IF sel # AllLabel
                    THEN SelectSeq(d, LAMBDA r : r.category = sel)
                    ELSE d
  /\ category_counts' = value_counts(d)
  /\ mag_stats' = stats
  /\ \E lo \in idxmin(keys, means), hi \in idxmax(keys, means) :
       /\ lo[1] = hi[1]
       /\ \/ /\ lo[1] = "raise"
             /\ brightest_cat' = Unset /\ dimmest_cat' = Unset
             /\ summary' = <<>> /\ radar_data' = <<>>
             /\ script_error' = ValueError
          \/ /\ lo[1] = "nan"
             /\ brightest_cat' = None /\ dimmest_cat' = None
             /\ summary' = <<>> /\ radar_data' = <<>>
             /\ script_error' = KeyError
          \/ /\ lo[1] = "label"
             /\ brightest_cat' = lo[2] /\ dimmest_cat' = hi[2]
             /\ summary' = summary_of(d)
             /\ radar_data' = radar_of(summary_of(d))
             /\ script_error' = None

InitReport ==
  /\ csv \in Tables
  /\ df = <<>>
  /\ selected_category = Unset /\ filtered_df = <<>>
  /\ category_counts = <<>> /\ mag_stats = <<>>
  /\ brightest_cat = Unset /\ dimmest_cat = Unset
  /\ summary = <<>> /\ radar_data = <<>> /\ script_error = None
  /\ IdleClassify
  /\ IdleDistance
  /\ IdleSize
  /\ IdleCollect

\* the first run: the table is loaded and the selectbox shows its first
\* option, '전체'
Load ==
  /\ selected_category = Unset
  /\ df' = load_and_process_data(csv)
  /\ RunScript(df', AllLabel)
  /\ UNCHANGED <<csv, classifyVars, distanceVars, sizeVars, collectVars>>

\* the user picks another option of the selectbox: the script runs again
Select(c) ==
  /\ selected_category # Unset
  /\ c \in Range(categories(df))
  /\ c # selected_category
  /\ RunScript(df, c)
  /\ UNCHANGED <<csv, df, classifyVars, distanceVars, sizeVars, collectVars>>

NextReport == Load \/ \E c \in {AllLabel, Cluster, Galaxy, Nebula, Other} : Select(c)

SpecReport == InitReport /\ [][NextReport]_vars

(***************************************************************************)
(* Claims about the Reporter                                               *)
(***************************************************************************)
\* the rows of d that match the selection: all of them for '전체'
Matching(d, sel) ==
  SelectSeq(d, LAMBDA r : sel = AllLabel \/ r.category = sel)

RECURSIVE SumCounts(_, _)
\* the sum of the count column of table s over the groups in cs
SumCounts(s, cs) ==
  IF cs = {} THEN 0
  ELSE LET c == CHOOSE x \in cs : TRUE IN s[c].count + SumCounts(s, cs \ {c})

\* C8: after a run with a category selected, the category counts, the
\* magnitude statistics and the summary table are those of the rows of that
\* category only; with '전체' selected they are those of the full table.
C8_FilterRestrictsTabulations ==
  selected_category # Unset =>
    LET rows == Matching(df, selected_category) IN
      /\ category_counts = value_counts(rows)
      /\ mag_stats = mag_stats_of(rows)
      /\ script_error = None => summary = summary_of(rows)

\* C9: the per-category counts of the summary table add up to the number of
\* rows of the table that match the selection.
C9_CountsSumToMatchingRows ==
  Rendered =>
    SumCounts(summary, DOMAIN summary) = Len(Matching(df, selected_category))

\* the exact mean magnitude of category c of the loaded table
MeanMagnitude(c) == series_mean(Column(group(df, c), "magnitude_num"))

Position(order, c) == CHOOSE i \in 1..Len(order) : order[i] = c

\* pick has the smallest value of val among the categories where val is
\* defined, and is the first in order among those that share it
IsFirstMinimum(pick, val, order) ==
  LET defined == {c \in Range(order) : val[c] # None} IN
    /\ pick \in defined
    /\ \A c \in defined : ~LessFloat(val[c], val[pick])
    /\ \A c \in defined :
         val[c] = val[pick] => Position(order, pick) <= Position(order, c)

IsFirstMaximum(pick, val, order) ==
  LET defined == {c \in Range(order) : val[c] # None} IN
    /\ pick \in defined
    /\ \A c \in defined : ~LessFloat(val[pick], val[c])
    /\ \A c \in defined :
         val[c] = val[pick] => Position(order, pick) <= Position(order, c)

\* C10 as stated: the brightest (dimmest) category has the minimum (maximum)
\* mean magnitude over the categories with a defined mean, the first of
\* Cluster, Galaxy, Nebula, Other among equals.
C10_ExtremeOfMeans ==
  Rendered =>
    LET order == <<Cluster, Galaxy, Nebula, Other>>
        val == [c \in Range(order) |-> MeanMagnitude(c)]
    IN /\ IsFirstMinimum(brightest_cat, val, order)
       /\ IsFirstMaximum(dimmest_cat, val, order)

\* C10 as amended: the brightest (dimmest) category has the minimum
\* (maximum) mean magnitude rounded to two decimals over the categories with
\* a defined mean, the first in the sorted order of the labels (Other,
\* Cluster, Nebula, Galaxy) among equals.
C10_ExtremeOfRoundedMeans ==
  Rendered =>
    LET order == <<Other, Cluster, Nebula, Galaxy>>
        val == [c \in Range(order) |-> round(MeanMagnitude(c), 2)]
    IN /\ IsFirstMinimum(brightest_cat, val, order)
       /\ IsFirstMaximum(dimmest_cat, val, order)

\* Other and Cluster share the smallest rounded mean and Other is reported.
C10_Witness ==
  /\ Rendered
  /\ brightest_cat = Other
  /\ MeanMagnitude(Cluster) # None
  /\ round(MeanMagnitude(Cluster), 2) = round(MeanMagnitude(Other), 2)
  /\ dimmest_cat # brightest_cat

\* a float in [0, 1]
InUnitInterval(v) ==
  /\ v # None /\ v # Inf
  /\ v[2] >= 0 /\ v[2] <= v[3]

\* C11: for every table, each of the three normalized values of every
\* plotted category is a defined number in [0, 1].
C11_NormalizedInUnitInterval ==
  Rendered =>
    \A c \in plotted(radar_data) :
      /\ InUnitInterval(radar_data[c].count_norm)
      /\ InUnitInterval(radar_data[c].bright_norm)
      /\ InUnitInterval(radar_data[c].dist_norm)

\* the raw columns a row's derived columns are computed from
RawFields(r) == <<r.object_type, r.magnitude, r.distance>>

\* the derived columns of an enriched row
DerivedFields(r) == <<r.category, r.magnitude_num, r.distance_kly>>

\* the raw table ("Globular Cluster", "6.5", "25"), ("Spiral Galaxy", "9.0",
\* "2,500"), (no type, "bad", "~")
ExampleTable ==
  <<[messier |-> Str(<<"M","1","3">>),
     object_type |-> Str(<<"G","l","o","b","u","l","a","r"," ","C","l","u","s","t","e","r">>),
     magnitude |-> Str(<<"6",".","5">>), distance |-> Str(<<"2","5">>)],
    [messier |-> Str(<<"M","3","1">>),
     object_type |-> Str(<<"S","p","i","r","a","l"," ","G","a","l","a","x","y">>),
     magnitude |-> Str(<<"9",".","0">>), distance |-> Str(<<"2",",","5","0","0">>)],
    [messier |-> Str(<<"M","4","0">>), object_type |-> None,
     magnitude |-> Str(<<"b","a","d">>), distance |-> Str(<<"~">>)]>>

\* C12: the enriched table has the rows of the raw table, in order, none
\* dropped or merged; each row's category, magnitude and distance are
\* computed from that row's raw type, magnitude and distance alone (rows with
\* equal raw fields get equal derived fields, wherever they stand and whatever
\* the other rows are); and the example table gives categories [Cluster,
\* Galaxy, Other], magnitudes [6.5, 9.0, absent], distances [25.0, 2500.0,
\* absent] and brightest category Cluster.
C12_RowForRow ==
  selected_category # Unset =>
    /\ Len(df) = Len(csv)
    /\ \A i \in 1..Len(csv) :
         /\ df[i].messier = csv[i].messier
         /\ RawFields(df[i]) = RawFields(csv[i])
         /\ df[i].category = categorize_object(csv[i].object_type)[1]
         /\ df[i].magnitude_num = to_numeric(csv[i].magnitude)
         /\ df[i].distance_kly = parse_distance(csv[i].distance)
    /\ \A i, j \in 1..Len(df) :
         RawFields(df[i]) = RawFields(df[j])
           => DerivedFields(df[i]) = DerivedFields(df[j])
    /\ csv = ExampleTable =>
         /\ [i \in 1..3 |-> df[i].category] = <<Cluster, Galaxy, Other>>
         /\ [i \in 1..3 |-> df[i].magnitude_num] = <<Rat(13, 2), Rat(9, 1), None>>
         /\ [i \in 1..3 |-> df[i].distance_kly] = <<Rat(25, 1), Rat(2500, 1), None>>
         /\ brightest_cat = Cluster

\* the example table has been loaded and the page rendered
C12_Witness ==
  /\ csv = ExampleTable
  /\ Rendered
  /\ Len(df) = 3
  /\ df[3].magnitude_num = None

(***************************************************************************)
(* The collector (src/celestial_scraper.py)                                *)
(***************************************************************************)
\* a pandas DataFrame with the given rows
DataFrame(rows) == <<"DataFrame", rows>>

\* an HTTP response that was received with a success status and parsed
Html(content) == <<"html", content>>

\* requests.get raised, timed out, or raise_for_status raised
RequestException == <<"raise", "RequestException">>

AttributeError == <<"raise", "AttributeError">>

RECURSIVE split(_, _)
\* cs.split(sep) for a one-character sep: the pieces, empty ones kept
split(cs, sep) ==
  IF \A i \in 1..Len(cs) : cs[i] # sep THEN <<cs>>
  ELSE LET k == CHOOSE i \in 1..Len(cs) :
                  cs[i] = sep /\ \A j \in 1..(i - 1) : cs[j] # sep
       IN <<SubSeq(cs, 1, k - 1)>> \o split(SubSeq(cs, k + 1, Len(cs)), sep)

RECURSIVE split_whitespace(_)
\* cs.split(): the maximal runs of non-blank characters
split_whitespace(cs) ==
  LET s == strip(cs) IN
  IF s = <<>> THEN <<>>
  ELSE IF \A i \in 1..Len(s) : ~IsSpace(s[i]) THEN <<s>>
  ELSE LET k == CHOOSE i \in 1..Len(s) :
                  IsSpace(s[i]) /\ \A j \in 1..(i - 1) : ~IsSpace(s[j])
       IN <<SubSeq(s, 1, k - 1)>> \o split_whitespace(SubSeq(s, k + 1, Len(s)))

type_mapping ==
  <<"1">> :> <<"O","p","e","n"," ","C","l","u","s","t","e","r">> @@
  <<"2">> :> <<"G","l","o","b","u","l","a","r"," ","C","l","u","s","t","e","r">> @@
  <<"3">> :> <<"P","l","a","n","e","t","a","r","y"," ","N","e","b","u","l","a">> @@
  <<"4">> :> <<"D","i","f","f","u","s","e"," ","N","e","b","u","l","a">> @@
  <<"5">> :> <<"S","p","i","r","a","l"," ","G","a","l","a","x","y">> @@
  <<"6">> :> <<"E","l","l","i","p","t","i","c","a","l"," ","G","a","l","a","x","y">> @@
  <<"7">> :> <<"I","r","r","e","g","u","l","a","r"," ","G","a","l","a","x","y">> @@
  <<"8">> :> <<"L","e","n","t","i","c","u","l","a","r"," ","G","a","l","a","x","y">> @@
  <<"9">> :> <<"S","u","p","e","r","n","o","v","a"," ","R","e","m","n","a","n","t">> @@
  <<"A">> :> <<"A","s","t","e","r","i","s","m">> @@
  <<"B">> :> <<"M","i","l","k","y"," ","W","a","y"," ","P","a","t","c","h">> @@
  <<"C">> :> <<"B","i","n","a","r","y"," ","S","t","a","r">>

Unknown == <<"U","n","k","n","o","w","n">>

category_mapping ==
  <<"O","p","e","n"," ","C","l","u","s","t","e","r">> :> Cluster @@
  <<"G","l","o","b","u","l","a","r"," ","C","l","u","s","t","e","r">> :> Cluster @@
  <<"P","l","a","n","e","t","a","r","y"," ","N","e","b","u","l","a">> :> Nebula @@
  <<"D","i","f","f","u","s","e"," ","N","e","b","u","l","a">> :> Nebula @@
  <<"S","u","p","e","r","n","o","v","a"," ","R","e","m","n","a","n","t">> :> Nebula @@
  <<"S","p","i","r","a","l"," ","G","a","l","a","x","y">> :> Galaxy @@
  <<"E","l","l","i","p","t","i","c","a","l"," ","G","a","l","a","x","y">> :> Galaxy @@
  <<"I","r","r","e","g","u","l","a","r"," ","G","a","l","a","x","y">> :> Galaxy @@
  <<"L","e","n","t","i","c","u","l","a","r"," ","G","a","l","a","x","y">> :> Galaxy @@
  <<"A","s","t","e","r","i","s","m">> :> Other @@
  <<"M","i","l","k","y"," ","W","a","y"," ","P","a","t","c","h">> :> Other @@
  <<"B","i","n","a","r","y"," ","S","t","a","r">> :> Other

\* dict.get(key, default)
get(d, key, default) == IF key \in DOMAIN d THEN d[key] ELSE default

\* float multiplied by the sign -1 or 1
MulSign(v, sign) == <<"float", sign * v[2], v[3]>>

\* One pass of the loop over the lines: the objects the line adds, none or
\* one.  Any ValueError of a float() skips the line.
parse_seds_line(raw_line) ==
  LET line == strip(raw_line)
      parts == split_whitespace(line)
  IN
  IF line = <<>> \/ Head(line) # "M" THEN <<>>
  ELSE IF Len(parts) < 11 THEN <<>>
  ELSE
    LET type_code == parts[4]
        ra_h == float_of(parts[5])
        ra_m == float_of(parts[6])
        dec_d == parts[7]
        dec_val == float_of(remove(dec_d, "+"))
        dec_sign == IF Contains(dec_d, <<"-">>) THEN -1 ELSE 1
        dec_m == float_of(parts[8])
        magnitude == float_of(parts[9])
        object_type == get(type_mapping, type_code, Unknown)
    IN
    IF \E v \in {ra_h, ra_m, dec_val, dec_m, magnitude} : IsRaise(v) THEN <<>>
    ELSE
      <<[messier |-> Str(parts[1]), ngc |-> Str(parts[2]),
         constellation |-> Str(parts[3]), type_code |-> Str(type_code),
         object_type |-> Str(object_type),
         category |-> get(category_mapping, object_type, Other),
         ra_h |-> ra_h, ra_m |-> ra_m,
         ra_decimal |-> round(AddFloat(ra_h, DivFloat(ra_m, 60)), 4),
         dec_d |-> MulSign(dec_val, dec_sign), dec_m |-> dec_m,
         dec_decimal |->
           round(MulSign(AddFloat(<<"float", Abs(dec_val[2]), dec_val[3]>>,
                                  DivFloat(dec_m, 60)),
                         dec_sign), 4),
         magnitude |-> magnitude,
         size |-> Str(parts[10]),
         distance_kly |-> Str(parts[11])]>>

RECURSIVE parse_seds_lines(_)
parse_seds_lines(ls) ==
  IF ls = <<>> THEN <<>>
  ELSE parse_seds_line(Head(ls)) \o parse_seds_lines(Tail(ls))

\* always a DataFrame, an empty one when no line gave an object
parse_seds_data(raw_text) ==
  DataFrame(parse_seds_lines(split(strip(raw_text), "\n")))

\* response: RequestException, or the page with the text of its first <pre>
\* (None when it has none)
scrape_seds_messier(response) ==
  IF IsRaise(response) THEN None
  ELSE IF response[2] = None THEN None
  ELSE parse_seds_data(response[2][2])

\* A table of the page is the sequence of its rows and a row is its number
\* of cells.  rows[1:] with at least 8 cells each give an object; ra and
\* dec are taken from the cells 8 and 9 when there are 9.
parse_wikipedia_table(table) ==
  LET body == SubSeq(table, 2, Len(table))
      kept == SelectSeq(body, LAMBDA n : n >= 8)
  IN DataFrame([i \in 1..Len(kept) |-> [cells |-> kept[i], ra_dec |-> kept[i] >= 9]])

\* response: RequestException, or the page with its wikitable tables
scrape_wikipedia_messier(response) ==
  IF IsRaise(response) THEN None
  ELSE LET tables == response[2]
           big == {i \in 1..Len(tables) : Len(tables[i]) > 100}
       IN IF big = {} THEN None
          ELSE parse_wikipedia_table(tables[CHOOSE i \in big : \A j \in big : i <= j])

\* df.empty
empty(d) == d[2] = <<>>

clean_data(d) ==
  IF d = None THEN None
  ELSE IF empty(d) THEN None
  ELSE DataFrame([i \in 1..Len(d[2]) |->
         LET r == d[2][i] IN
         [messier |-> r.messier, ngc |-> r.ngc,
          constellation |-> r.constellation, type_code |-> r.type_code,
          object_type |-> r.object_type, category |-> r.category,
          ra_h |-> r.ra_h, ra_m |-> r.ra_m, ra_decimal |-> r.ra_decimal,
          dec_d |-> r.dec_d, dec_m |-> r.dec_m, dec_decimal |-> r.dec_decimal,
          magnitude |-> r.magnitude, size |-> r.size,
          distance_kly |-> to_numeric(r.distance_kly),
          size_arcmin |-> parse_size(r.size)]])

SedsFile == "messier_seds.csv"

WikiFile == "messier_wikipedia.csv"

(***************************************************************************)
(* Runs of main                                                            *)
(***************************************************************************)
MaxLines == 3

\* lines of the <pre> block, each with its line end
SedsLines ==
  { l \o <<"\n">> : l \in {
    \* a well-formed row
    <<"M","1"," ","1","9","5","2"," ","T","a","u"," ","9"," ","5"," ","3","4",".","5"," ","+","2","2"," ","0","1"," ","8",".","4"," ","6","x","4"," ","6",".","3">>,
    \* a well-formed row with a southern declination, indented
    <<" "," ","M","4"," ","6","1","2","1"," ","S","c","o"," ","2"," ","1","6"," ","2","3",".","6"," ","-","2","6"," ","3","2"," ","5",".","6"," ","2","6",".","3"," ","7",".","2">>,
    \* a row with six fields
    <<"M","4","0"," ","W","i","n","4"," ","U","M","a"," ","C"," ","1","2"," ","2","2",".","4">>,
    \* a row whose right ascension is not a number
    <<"M","4","5"," ","-"," ","T","a","u"," ","1"," ","3","h"," ","4","7",".","0"," ","+","2","4"," ","0","7"," ","1",".","6"," ","1","1","0"," ","0",".","4">>,
    \* a row whose magnitude is not a number
    <<"M","7","3"," ","6","9","9","4"," ","A","q","r"," ","A"," ","2","0"," ","5","8",".","9"," ","-","1","2"," ","3","8"," ","9",".","0",":"," ","2",".","8"," ","2",".","0">>,
    \* a heading line
    <<"O","b","j"," ","N","G","C"," ","C","o","n"," ","T"," ","R","A"," ","D","e","c"," ","M","a","g"," ","S","i","z","e"," ","D","i","s","t">>,
    \* a blank line
    <<" ">> } }

SedsResponses ==
  {RequestException, Html(None)}
    \cup {Html(Str(raw_text)) : raw_text \in Concats(SedsLines, MaxLines)}

\* a wikitable of n rows with k cells each
Table(n, k) == [i \in 1..n |-> k]

WikiResponses ==
  { RequestException,
    Html(<<>>),
    Html(<<Table(3, 9)>>),
    Html(<<Table(3, 9), Table(111, 9)>>),
    Html(<<Table(101, 8), Table(111, 9)>>),
    Html(<<Table(111, 7)>>) }

InitCollect ==
  /\ pc = "scrape_seds"
  /\ seds_response \in SedsResponses
  /\ wiki_response \in WikiResponses
  /\ seds_df = Unset /\ wiki_df = Unset
  /\ files = <<>> /\ main_error = None
  /\ IdleClassify
  /\ IdleDistance
  /\ IdleSize
  /\ IdleReport

\* seds_df = scrape_seds_messier()
ScrapeSeds ==
  /\ pc = "scrape_seds"
  /\ seds_df' = scrape_seds_messier(seds_response)
  /\ pc' = IF seds_df' # None THEN "clean_seds" ELSE "scrape_wiki"
  /\ UNCHANGED <<seds_response, wiki_response, wiki_df, files, main_error>>
  /\ UNCHANGED <<classifyVars, distanceVars, sizeVars, reportVars>>

\* seds_df = clean_data(seds_df)
CleanSeds ==
  /\ pc = "clean_seds"
  /\ seds_df' = clean_data(seds_df)
  /\ pc' = "save_seds"
  /\ UNCHANGED <<seds_response, wiki_response, wiki_df, files, main_error>>
  /\ UNCHANGED <<classifyVars, distanceVars, sizeVars, reportVars>>

\* save_data(seds_df, 'messier_seds.csv'): df.to_csv raises AttributeError
\* when df is None, and main ends with it
SaveSeds ==
  /\ pc = "save_seds"
  /\ IF seds_df = None
     THEN /\ main_error' = AttributeError
          /\ pc' = "raised"
          /\ files' = files
     ELSE /\ main_error' = main_error
          /\ pc' = "scrape_wiki"
          /\ files' = Append(files, <<SedsFile, seds_df>>)
  /\ UNCHANGED <<seds_response, wiki_response, seds_df, wiki_df>>
  /\ UNCHANGED <<classifyVars, distanceVars, sizeVars, reportVars>>

\* wiki_df = scrape_wikipedia_messier()
ScrapeWiki ==
  /\ pc = "scrape_wiki"
  /\ wiki_df' = scrape_wikipedia_messier(wiki_response)
  /\ pc' = IF wiki_df' # None THEN "save_wiki" ELSE "summary"
  /\ UNCHANGED <<seds_response, wiki_response, seds_df, files, main_error>>
  /\ UNCHANGED <<classifyVars, distanceVars, sizeVars, reportVars>>

\* save_data(wiki_df, 'messier_wikipedia.csv')
SaveWiki ==
  /\ pc = "save_wiki"
  /\ files' = Append(files, <<WikiFile, wiki_df>>)
  /\ pc' = "summary"
  /\ UNCHANGED <<seds_response, wiki_response, seds_df, wiki_df, main_error>>
  /\ UNCHANGED <<classifyVars, distanceVars, sizeVars, reportVars>>

\* the printed summary and the return
Summary ==
  /\ pc = "summary"
  /\ pc' = "returned"
  /\ UNCHANGED <<seds_response, wiki_response, seds_df, wiki_df, files, main_error>>
  /\ UNCHANGED <<classifyVars, distanceVars, sizeVars, reportVars>>

NextCollect ==
  ScrapeSeds \/ CleanSeds \/ SaveSeds \/ ScrapeWiki \/ SaveWiki \/ Summary

SpecCollect == InitCollect /\ [][NextCollect]_vars

(***************************************************************************)
(* Collector claims                                                        *)
(***************************************************************************)
\* the SEDS page was received and has a <pre> block
HasDocument(response) ==
  IF IsRaise(response) THEN FALSE ELSE response[2] # None

\* the lines of the scraped document that are catalogue rows
DocumentRows(response) ==
  SelectSeq(split(response[2][2], "\n"),
            LAMBDA l : strip(l) # <<>> /\ Head(strip(l)) = "M")

\* a row with the eleven fields, its two coordinates and its magnitude numbers
WellFormedRow(l) ==
  LET f == split_whitespace(l) IN
  /\ Len(f) >= 11
  /\ \A i \in 5..9 : Numeric(f[i])

\* the first field of every well-formed row, in document order
WellFormedIds(response) ==
  LET rows == SelectSeq(DocumentRows(response), WellFormedRow)
  IN [i \in 1..Len(rows) |-> Str(split_whitespace(rows[i])[1])]

\* the collector run has ended, by returning or by raising
Ended == pc \in {"returned", "raised"}

\* the skipping of rows alone: parse_seds_data emits the well-formed rows
RowsSkippedOneByOne ==
  (HasDocument(seds_response) /\ pc = "clean_seds") =>
    [i \in 1..Len(seds_df[2]) |-> seds_df[2][i].messier]
      = WellFormedIds(seds_response)

\* C13: for every scraped SEDS document the malformed rows are skipped and
\* the well-formed rows are emitted, and main goes on to the Wikipedia source
\* and ends without raising, whatever the number of malformed rows.
C13_RowFailuresContained ==
  HasDocument(seds_response) =>
    /\ RowsSkippedOneByOne
    /\ main_error = None
    /\ Ended => wiki_df # Unset

\* the request failed or the page lacks the <pre> block
SedsFetchFailed == ~HasDocument(seds_response)

\* the request failed or the page has no wikitable of more than 100 rows
WikiFetchFailed ==
  IF IsRaise(wiki_response) THEN TRUE
  ELSE \A i \in 1..Len(wiki_response[2]) : Len(wiki_response[2][i]) <= 100

\* a file of that name has been written
Saved(filename) == \E i \in 1..Len(files) : files[i][1] = filename

\* C14: a source whose fetch failed has an absent result and no file; main
\* attempts the Wikipedia fetch whatever the SEDS outcome, saves every source
\* that gave a result, and returns without raising under every combination
\* of fetch success and failure of the two sources.
C14_FetchFailuresContained ==
  /\ SedsFetchFailed => (seds_df \in {Unset, None} /\ ~Saved(SedsFile))
  /\ WikiFetchFailed => (wiki_df \in {Unset, None} /\ ~Saved(WikiFile))
  /\ main_error = None
  /\ Ended => wiki_df # Unset
  /\ pc = "returned" =>
       /\ ~SedsFetchFailed => Saved(SedsFile)
       /\ ~WikiFetchFailed => Saved(WikiFile)

\* the part of C14 about failed fetches alone
FailedFetchIsAbsent ==
  /\ SedsFetchFailed => (seds_df \in {Unset, None} /\ ~Saved(SedsFile))
  /\ WikiFetchFailed => (wiki_df \in {Unset, None} /\ ~Saved(WikiFile))
  /\ (SedsFetchFailed /\ Ended) => (pc = "returned" /\ wiki_df # Unset)
  /\ (SedsFetchFailed /\ ~WikiFetchFailed /\ Ended) => Saved(WikiFile)

\* the twelve object-type names the SEDS collector can emit
EmittedTypeNames == {type_mapping[c] : c \in DOMAIN type_mapping}

\* C15: for each of the twelve object-type names of type_mapping, the
\* category category_mapping gives equals the category categorize_object
\* derives from that name.
C15_ClassificationsAgree ==
  (obj_type # None /\ classified # Unset) =>
    (obj_type[2] \in EmittedTypeNames =>
       classified[1] = category_mapping[obj_type[2]])

\* the eleven names other than "Irregular Galaxy" do agree
AgreeButIrregular ==
  (obj_type # None /\ classified # Unset) =>
    ((obj_type[2] \in EmittedTypeNames
       /\ obj_type[2] # type_mapping[<<"7">>]) =>
       classified[1] = category_mapping[obj_type[2]])

\* every one of the twelve names is among the classified inputs
AllEmittedNamesDrawn == \A n \in EmittedTypeNames : Str(n) \in ObjectTypes

====
